---- MODULE Spec2Model ----
(***************************************************************************)
(* Model of the anonymous credential chain of the RUM web client           *)
(* (class Authentication): the localStorage credential cache               *)
(* (AnonymousCookieCredentialsProvider), the Cognito/STS exchange          *)
(* (AnonymousCognitoCredentialsProvider) and the chain that composes them  *)
(* (ChainAnonymousCredentialsProvider).                                    *)
(*                                                                         *)
(* Time is a millisecond counter.  A date text is two decimal digits       *)
(* followed by "Z"; a Date value is [nan, ms], with nan = TRUE for the     *)
(* Invalid Date that new Date() builds from undefined or unparseable text. *)
(***************************************************************************)
EXTENDS Integers, Sequences, FiniteSets, TLC

\* ---------------------------------------------------------------- bounds
MaxCalls == 2      \* getCredentials() calls that may run, in any interleaving
MaxTime  == 2      \* clock ticks after the initial instant
T0       == 9      \* the initial instant (so that date texts use both digits)

Calls    == 1..MaxCalls
ExpTimes == (T0 - 1)..(T0 + MaxTime + 1)

\* ------------------------------------------------------ static configuration
identityPoolId == "us-west-2:pool"
guestRoleArn   == "arn:aws:iam::role/guest"

\* ------------------------------------------------------------- Date values
InvalidDate == [nan |-> TRUE, ms |-> 0]
DateOf(t)   == [nan |-> FALSE, ms |-> t]

DateLT_Flipped(a, b) == ~a.nan /\ ~b.nan /\ a.ms > b.ms

\* a < b on Dates: both are converted to numbers, NaN compares false
DateLT(a, b) == ~a.nan /\ ~b.nan /\ a.ms < b.ms

Digits == <<"0", "1", "2", "3", "4", "5", "6", "7", "8", "9">>

DigitVal(ch) == CHOOSE d \in 0..9 : Digits[d + 1] = ch

IsDigit(ch) == \E d \in 0..9 : Digits[d + 1] = ch

toISOString_Trunc(d) == <<"0", Digits[(d.ms % 10) + 1], "Z">>

\* Date.prototype.toISOString
toISOString(d) == <<Digits[(d.ms \div 10) + 1], Digits[(d.ms % 10) + 1], "Z">>

DateParse_NoZ(s) ==
    IF Len(s) = 2 /\ IsDigit(s[1]) /\ IsDigit(s[2])
    THEN DateOf(DigitVal(s[1]) * 10 + DigitVal(s[2]))
    ELSE InvalidDate

\* Date.parse of a text
DateParse(s) ==
    IF Len(s) = 3 /\ IsDigit(s[1]) /\ IsDigit(s[2]) /\ s[3] = "Z"
    THEN DateOf(DigitVal(s[1]) * 10 + DigitVal(s[2]))
    ELSE InvalidDate

\* ---------------------------------------------- JSON field values (texts)
JUndefined == [t |-> "undefined", s |-> <<>>]
JNull      == [t |-> "null", s |-> <<>>]
JString(s) == [t |-> "string", s |-> s]

\* new Date(v) for a value v read from a parsed record
NewDate(v) ==
    CASE v.t = "undefined" -> InvalidDate
      [] v.t = "null"      -> DateOf(0)
      [] OTHER             -> DateParse(v.s)

\* Date.prototype.toJSON, as JSON.stringify applies it
DateToJSON(d) == IF d.nan THEN JNull ELSE JString(toISOString(d))

\* ------------------------------------------------------------ credentials
CredNames == {"1", "2"}

Credential(n, e) ==
    [accessKeyId |-> "AK" \o n, secretAccessKey |-> "S" \o n,
     sessionToken |-> "T" \o n, expiration |-> e]

NoCredentials ==
    [accessKeyId |-> "", secretAccessKey |-> "", sessionToken |-> "",
     expiration |-> InvalidDate]

\* lifetimes of the credentials STS may answer with
Lifetimes == {1, 2}

\* what STS may answer at instant t
StsCredentials(t) == {Credential(n, DateOf(t + l)) : n \in CredNames, l \in Lifetimes}

\* ------------------------------------------- localStorage item for CRED_KEY
\* kind "absent": getItem returns null; "text": text that is not JSON;
\* "number": JSON text of a number; "object": JSON text of an object
NoObject ==
    [accessKeyId |-> "", secretAccessKey |-> "", sessionToken |-> "",
     expiration |-> JUndefined]

ItemAbsent == [kind |-> "absent", obj |-> NoObject]

ItemText == [kind |-> "text", obj |-> NoObject]

ItemNumber == [kind |-> "number", obj |-> NoObject]

ItemObject(o) == [kind |-> "object", obj |-> o]

\* JSON.stringify(credentials)
JSONstringify(credentials) ==
    ItemObject([credentials EXCEPT !.expiration = DateToJSON(@)])

\* the texts a stored record may carry in its expiration field
StoredExpirations ==
    {JUndefined, JNull, JString(<<"x">>)}
        \cup {JString(toISOString(DateOf(e))) : e \in ExpTimes}

\* what the storage key may hold before the first call
InitialItems ==
    {ItemAbsent, ItemText, ItemNumber}
        \cup {ItemObject([Credential("0", InvalidDate) EXCEPT !.expiration = x]) :
                 x \in StoredExpirations}

\* --------------------------------------------------------------- promises
Pending == [state |-> "pending", value |-> NoCredentials]

\* reject() and resolve(v) act on a pending promise only
Reject(p) == IF p.state = "pending" THEN [p EXCEPT !.state = "rejected"] ELSE p

Resolve_Overwrite(p, v) == [state |-> "resolved", value |-> v]

Resolve(p, v) ==
    IF p.state = "pending" THEN [state |-> "resolved", value |-> v] ELSE p

\* JSON.parse(localStorage.getItem(CRED_KEY)) throws: getItem throws or the
\* text is not JSON
ParseThrows(item, getItemThrows) == getItemThrows \/ item.kind = "text"

AnonymousCookieCredentialsProvider_NoThrow(item, getItemThrows, t) ==
    LET p1 == IF ParseThrows(item, getItemThrows) THEN Reject(Pending) ELSE Pending
        isObject == ~ParseThrows(item, getItemThrows) /\ item.kind = "object"
    IN  IF ~isObject
        THEN Resolve(p1, NoCredentials)
        ELSE LET expiration == NewDate(item.obj.expiration)
                 credentials == [item.obj EXCEPT !.expiration = expiration]
                 p2 == IF DateLT(expiration, DateOf(t)) THEN Reject(p1) ELSE p1
             IN  Resolve(p2, credentials)

\* the executor of AnonymousCookieCredentialsProvider, run at instant t
AnonymousCookieCredentialsProvider(item, getItemThrows, t) ==
    LET p1 == IF ParseThrows(item, getItemThrows) THEN Reject(Pending) ELSE Pending
        isObject == ~ParseThrows(item, getItemThrows) /\ item.kind = "object"
    IN  IF ~isObject
        THEN \* credentials is undefined, null or a primitive: the assignment
             \* to credentials.expiration throws inside the executor
             Reject(p1)
        ELSE LET expiration == NewDate(item.obj.expiration)
                 credentials == [item.obj EXCEPT !.expiration = expiration]
                 p2 == IF DateLT(expiration, DateOf(t)) THEN Reject(p1) ELSE p1
             IN  Resolve(p2, credentials)

\* ------------------------------------------------------------------ state
VARIABLES
    now,        \* the wall clock
    available,  \* localStorage can be accessed (otherwise every access throws)
    storage,    \* the localStorage item under CRED_KEY
    pc,         \* per call: idle, miss, getId, getOpenIdToken, assumeRole,
                \*           resolved, rejected
    result,     \* per call: the credentials the call resolved with
    requests,   \* per call: the remote steps it has invoked, in order
    inflight,   \* per call: the request it is waiting on
    received,   \* per call: the response its running handler last received
    lookup,     \* per call: outcome of its cache lookup (none, hit, miss)
    wrote,      \* per call: its setItem (none, ok, failed)
    writer,     \* the call whose setItem wrote the current item (0: none yet)
    seen,       \* per call: the item its cache lookup read
    seenFrom    \* per call: the writer of the item its cache lookup read

\* DomEventPlugin
VARIABLES
    enabled,           \* this.enabled
    configuration,     \* this.configuration: a list of TargetDomEvent objects
    eventListenerMap,  \* this.eventListenerMap: object -> listener (0: no entry)
    recordEvent,       \* this.recordEvent: "undefined" or "record"
    attached,          \* the listeners attached to elements of the document
    nextListener,      \* the listener functions created so far
    lastOp,            \* the operation that ran last
    lastCalls,         \* if an event was dispatched last: the recordEvent
                       \* calls it made
    lastTarget,        \* if an event was dispatched last: its element and type
    snapshot,          \* if disable() ran last: the enabled flag and the
                       \* attached listeners it found
    duplicated         \* a list with a repeated entry has been supplied

authVars == <<now, available, storage, pc, result, requests, inflight, received,
              lookup, wrote, writer, seen, seenFrom>>

domVars == <<enabled, configuration, eventListenerMap, recordEvent, attached,
             nextListener, lastOp, lastCalls, lastTarget, snapshot, duplicated>>

vars == <<authVars, domVars>>

\* ---------------------------------------------------- remote collaborators
IdentityIds == {"id1", "id2"}
Tokens      == {"tok1", "tok2"}

NoMessage == [op |-> "none", IdentityPoolId |-> "", IdentityId |-> "",
              RoleArn |-> "", RoleSessionName |-> "", Token |-> "",
              Credentials |-> NoCredentials]

\* getId({IdentityPoolId: this.config.identityPoolId})
GetIdRequest ==
    [NoMessage EXCEPT !.op = "getId", !.IdentityPoolId = identityPoolId]

GetOpenIdTokenRequest_Shared(getIdResponse) ==
    [NoMessage EXCEPT !.op = "getOpenIdToken",
                      !.IdentityId = received'[1].IdentityId]

\* getOpenIdToken(getIdResponse)
GetOpenIdTokenRequest(getIdResponse) ==
    [NoMessage EXCEPT !.op = "getOpenIdToken",
                      !.IdentityId = getIdResponse.IdentityId]

\* assumeRoleWithWebIdentity({RoleArn, RoleSessionName, WebIdentityToken})
AssumeRoleRequest(getOpenIdTokenResponse) ==
    [NoMessage EXCEPT !.op = "assumeRoleWithWebIdentity",
                      !.RoleArn = guestRoleArn,
                      !.RoleSessionName = "cwr",
                      !.Token = getOpenIdTokenResponse.Token]

\* ----------------------------------------------------------- DomEventPlugin
MaxConfigLen == 2    \* longest configuration list supplied to configure()
MaxListeners == 5    \* listener functions the plugin may create

\* the elements of the document
Document == {"a", "b"}

\* TargetDomEvent objects a caller may put in a list.  t1 and t2 are two
\* objects with equal content; t3 names its element by reference.
TargetObjects == {"t1", "t2", "t3"}

TargetDomEvent(o) ==
    CASE o = "t1" -> [event |-> "click", elementId |-> "a", element |-> ""]
      [] o = "t2" -> [event |-> "click", elementId |-> "a", element |-> ""]
      [] OTHER    -> [event |-> "scroll", elementId |-> "", element |-> "b"]

EventTypes == {"click", "scroll"}

Configs == UNION {[1..n -> TargetObjects] : n \in 0..MaxConfigLen}

\* the part of the plugin and of the document the handlers act on
Handlers(map, att, next) == [map |-> map, attached |-> att, next |-> next]

\* this.getEventListener(): a new function each time
getEventListener(st) == st.next + 1

\* element.addEventListener(type, listener)
addEventListener(att, element, type, listener) ==
    att \cup {[element |-> element, event |-> type, listener |-> listener]}

\* element.removeEventListener(type, listener)
removeEventListener(att, element, type, listener) ==
    att \ {[element |-> element, event |-> type, listener |-> listener]}

addEventHandler(st, o) ==
    LET domEvent == TargetDomEvent(o)
        eventListener == getEventListener(st)
        att == IF domEvent.elementId # ""
               THEN IF domEvent.elementId \in Document
                    THEN addEventListener(st.attached, domEvent.elementId,
                                          domEvent.event, eventListener)
                    ELSE st.attached
               ELSE IF domEvent.element # ""
                    THEN addEventListener(st.attached, domEvent.element,
                                          domEvent.event, eventListener)
                    ELSE st.attached
    IN  Handlers([st.map EXCEPT ![o] = eventListener], att, eventListener)

removeEventHandler_KeepsListener(st, o) ==
    Handlers([st.map EXCEPT ![o] = 0], st.attached, st.next)

removeEventHandler(st, o) ==
    LET domEvent == TargetDomEvent(o)
        eventListener == st.map[o]
        att == IF domEvent.elementId # "" /\ eventListener # 0
               THEN IF domEvent.elementId \in Document
                    THEN removeEventListener(st.attached, domEvent.elementId,
                                             domEvent.event, eventListener)
                    ELSE st.attached
               ELSE IF domEvent.element # "" /\ eventListener # 0
                    THEN removeEventListener(st.attached, domEvent.element,
                                             domEvent.event, eventListener)
                    ELSE st.attached
    IN  Handlers([st.map EXCEPT ![o] = 0], att, st.next)

RECURSIVE removeListeners(_, _)
\* config.forEach((domEvent) => this.removeEventHandler(domEvent))
removeListeners(st, config) ==
    IF config = <<>> THEN st
    ELSE removeListeners(removeEventHandler(st, Head(config)), Tail(config))

RECURSIVE addListeners(_, _)
\* config.forEach((domEvent) => this.addEventHandler(domEvent))
addListeners(st, config) ==
    IF config = <<>> THEN st
    ELSE addListeners(addEventHandler(st, Head(config)), Tail(config))

\* the listeners an event of the given type on the given element invokes
Invoked(att, element, type) ==
    {l \in att : l.element = element /\ l.event = type}

NoTarget == [element |-> "", event |-> ""]

NoSnapshot == [on |-> FALSE, attached |-> {}]

\* the record of the last operation is dropped when another one runs
Forget ==
    /\ lastCalls' = 0
    /\ lastTarget' = NoTarget
    /\ snapshot' = NoSnapshot

\* the state the constructor leaves
DomEventPluginInit ==
    /\ enabled = TRUE
    /\ configuration = <<>>
    /\ eventListenerMap = [o \in TargetObjects |-> 0]
    /\ recordEvent = "undefined"
    /\ attached = {}
    /\ nextListener = 0
    /\ lastOp = "new"
    /\ lastCalls = 0
    /\ lastTarget = NoTarget
    /\ snapshot = NoSnapshot
    /\ duplicated = FALSE

Running(c) == pc[c] \in {"miss", "getId", "getOpenIdToken", "assumeRole"}

Settled(c) == pc[c] \in {"resolved", "rejected"}

Init ==
    /\ now = T0
    /\ available \in BOOLEAN
    /\ storage \in (IF available THEN InitialItems ELSE {ItemAbsent})
    /\ pc = [c \in Calls |-> "idle"]
    /\ result = [c \in Calls |-> NoCredentials]
    /\ requests = [c \in Calls |-> <<>>]
    /\ inflight = [c \in Calls |-> NoMessage]
    /\ received = [c \in Calls |-> NoMessage]
    /\ lookup = [c \in Calls |-> "none"]
    /\ wrote = [c \in Calls |-> "none"]
    /\ writer = 0
    /\ seen = [c \in Calls |-> ItemAbsent]
    /\ seenFrom = [c \in Calls |-> 0]
    /\ DomEventPluginInit

\* the clock advances
Tick ==
    /\ now < T0 + MaxTime
    /\ now' = now + 1
    /\ UNCHANGED <<available, storage, pc, result, requests, inflight,
                   received, lookup, wrote, writer, seen, seenFrom>>
    /\ UNCHANGED domVars

\* ChainAnonymousCredentialsProvider(): runs the cache lookup; a resolved
\* lookup settles the call, a rejected one leaves the catch handler pending
ChainAnonymousCredentialsProvider(c) ==
    /\ pc[c] = "idle"
    /\ LET p == AnonymousCookieCredentialsProvider(storage, ~available, now)
       IN  IF p.state = "resolved"
           THEN /\ pc' = [pc EXCEPT ![c] = "resolved"]
                /\ result' = [result EXCEPT ![c] = p.value]
                /\ lookup' = [lookup EXCEPT ![c] = "hit"]
           ELSE /\ pc' = [pc EXCEPT ![c] = "miss"]
                /\ lookup' = [lookup EXCEPT ![c] = "miss"]
                /\ UNCHANGED result
    /\ seen' = [seen EXCEPT ![c] = storage]
    /\ seenFrom' = [seenFrom EXCEPT ![c] = writer]
    /\ UNCHANGED <<now, available, storage, requests, inflight, received,
                   wrote, writer>>
    /\ UNCHANGED domVars

\* the catch handler: AnonymousCognitoCredentialsProvider() invokes getId
AnonymousCognitoCredentialsProvider(c) ==
    /\ pc[c] = "miss"
    /\ pc' = [pc EXCEPT ![c] = "getId"]
    /\ requests' = [requests EXCEPT ![c] = Append(@, GetIdRequest.op)]
    /\ inflight' = [inflight EXCEPT ![c] = GetIdRequest]
    /\ UNCHANGED <<now, available, storage, result, received, lookup, wrote,
                   writer, seen, seenFrom>>
    /\ UNCHANGED domVars

RemoteStepFails_Retry(c) ==
    /\ pc[c] \in {"getId", "getOpenIdToken", "assumeRole"}
    /\ IF Len(requests[c]) <= 3
       THEN /\ requests' = [requests EXCEPT ![c] = Append(@, inflight[c].op)]
            /\ UNCHANGED <<pc, inflight, received>>
       ELSE /\ pc' = [pc EXCEPT ![c] = "rejected"]
            /\ inflight' = [inflight EXCEPT ![c] = NoMessage]
            /\ received' = [received EXCEPT ![c] = NoMessage]
            /\ UNCHANGED requests
    /\ UNCHANGED <<now, available, storage, result, lookup, wrote,
                   writer, seen, seenFrom>>
    /\ UNCHANGED domVars

RemoteStepFails_Stores(c) ==
    /\ pc[c] \in {"getId", "getOpenIdToken", "assumeRole"}
    /\ pc' = [pc EXCEPT ![c] = "rejected"]
    /\ inflight' = [inflight EXCEPT ![c] = NoMessage]
    /\ received' = [received EXCEPT ![c] = NoMessage]
    /\ storage' = IF available THEN ItemText ELSE storage
    /\ UNCHANGED <<now, available, result, requests, lookup, wrote,
                   writer, seen, seenFrom>>
    /\ UNCHANGED domVars

\* a remote step of call c fails: the remaining then-handlers are skipped and
\* the call rejects
RemoteStepFails(c) ==
    /\ pc[c] \in {"getId", "getOpenIdToken", "assumeRole"}
    /\ pc' = [pc EXCEPT ![c] = "rejected"]
    /\ inflight' = [inflight EXCEPT ![c] = NoMessage]
    /\ received' = [received EXCEPT ![c] = NoMessage]
    /\ UNCHANGED <<now, available, storage, result, requests, lookup, wrote,
                   writer, seen, seenFrom>>
    /\ UNCHANGED domVars

\* getId answers: the first then-handler invokes getOpenIdToken
GetIdResponds(c) ==
    /\ pc[c] = "getId"
    /\ \E id \in IdentityIds :
          LET getIdResponse == [NoMessage EXCEPT !.op = "getIdResponse",
                                                 !.IdentityId = id]
          IN  /\ received' = [received EXCEPT ![c] = getIdResponse]
              /\ inflight' = [inflight EXCEPT
                                ![c] = GetOpenIdTokenRequest(getIdResponse)]
              /\ requests' = [requests EXCEPT
                                ![c] = Append(@, GetOpenIdTokenRequest(getIdResponse).op)]
    /\ pc' = [pc EXCEPT ![c] = "getOpenIdToken"]
    /\ UNCHANGED <<now, available, storage, result, lookup, wrote,
                   writer, seen, seenFrom>>
    /\ UNCHANGED domVars

GetOpenIdTokenResponds_Stores(c) ==
    /\ pc[c] = "getOpenIdToken"
    /\ \E tok \in Tokens :
          LET getOpenIdTokenResponse ==
                  [NoMessage EXCEPT !.op = "getOpenIdTokenResponse",
                                    !.IdentityId = inflight[c].IdentityId,
                                    !.Token = tok]
          IN  /\ received' = [received EXCEPT ![c] = getOpenIdTokenResponse]
              /\ inflight' = [inflight EXCEPT
                                ![c] = AssumeRoleRequest(getOpenIdTokenResponse)]
              /\ requests' = [requests EXCEPT
                                ![c] = Append(@, AssumeRoleRequest(getOpenIdTokenResponse).op)]
              /\ storage' = IF available
                            THEN ItemObject([NoObject EXCEPT !.sessionToken = tok])
                            ELSE storage
    /\ pc' = [pc EXCEPT ![c] = "assumeRole"]
    /\ UNCHANGED <<now, available, result, lookup, wrote,
                   writer, seen, seenFrom>>
    /\ UNCHANGED domVars

\* getOpenIdToken answers: the second then-handler invokes
\* assumeRoleWithWebIdentity
GetOpenIdTokenResponds(c) ==
    /\ pc[c] = "getOpenIdToken"
    /\ \E tok \in Tokens :
          LET getOpenIdTokenResponse ==
                  [NoMessage EXCEPT !.op = "getOpenIdTokenResponse",
                                    !.IdentityId = inflight[c].IdentityId,
                                    !.Token = tok]
          IN  /\ received' = [received EXCEPT ![c] = getOpenIdTokenResponse]
              /\ inflight' = [inflight EXCEPT
                                ![c] = AssumeRoleRequest(getOpenIdTokenResponse)]
              /\ requests' = [requests EXCEPT
                                ![c] = Append(@, AssumeRoleRequest(getOpenIdTokenResponse).op)]
    /\ pc' = [pc EXCEPT ![c] = "assumeRole"]
    /\ UNCHANGED <<now, available, storage, result, lookup, wrote,
                   writer, seen, seenFrom>>
    /\ UNCHANGED domVars

StoreAndReturn_NoReturn(item, credentials, setItemThrows) ==
    [item |-> IF setItemThrows THEN item ELSE JSONstringify(credentials),
     promise |-> Resolve(Pending, NoCredentials)]

StoreAndReturn_NoTry(item, credentials, setItemThrows) ==
    [item |-> IF setItemThrows THEN item ELSE JSONstringify(credentials),
     promise |-> IF setItemThrows THEN Reject(Pending)
                 ELSE Resolve(Pending, credentials)]

StoreAndReturn_FirstWins(item, credentials, setItemThrows) ==
    [item |-> IF setItemThrows \/ item.kind = "object"
              THEN item ELSE JSONstringify(credentials),
     promise |-> Resolve(Pending, credentials)]

StoreAndReturn_NoStore(item, credentials, setItemThrows) ==
    [item |-> item, promise |-> Resolve(Pending, credentials)]

\* the last then-handler: setItem inside try/catch (a throw is ignored),
\* then return credentials.  Yields the item left under the key and the
\* promise the handler settles.
StoreAndReturn(item, credentials, setItemThrows) ==
    [item |-> IF setItemThrows THEN item ELSE JSONstringify(credentials),
     promise |-> Resolve(Pending, credentials)]

\* assumeRoleWithWebIdentity answers: the last then-handler stores the
\* credentials and returns them
AssumeRoleResponds(c) ==
    /\ pc[c] = "assumeRole"
    /\ \E credentials \in StsCredentials(now), quota \in BOOLEAN :
          LET setItemThrows == ~available \/ quota
              r == StoreAndReturn(storage, credentials, setItemThrows)
          IN  /\ storage' = r.item
              /\ wrote' = [wrote EXCEPT
                             ![c] = IF setItemThrows THEN "failed" ELSE "ok"]
              /\ writer' = IF setItemThrows THEN writer ELSE c
              /\ received' = [received EXCEPT
                                ![c] = [NoMessage EXCEPT
                                          !.op = "assumeRoleWithWebIdentityResponse",
                                          !.Credentials = credentials]]
              /\ pc' = [pc EXCEPT ![c] = r.promise.state]
              /\ result' = [result EXCEPT ![c] = r.promise.value]
    /\ inflight' = [inflight EXCEPT ![c] = NoMessage]
    /\ UNCHANGED <<now, available, requests, lookup, seen, seenFrom>>
    /\ UNCHANGED domVars

Next ==
    \/ Tick
    \/ \E c \in Calls : ChainAnonymousCredentialsProvider(c)
    \/ \E c \in Calls : AnonymousCognitoCredentialsProvider(c)
    \/ \E c \in Calls : GetIdResponds(c)
    \/ \E c \in Calls : GetOpenIdTokenResponds(c)
    \/ \E c \in Calls : AssumeRoleResponds(c)
    \/ \E c \in Calls : RemoteStepFails(c)

Spec == Init /\ [][Next]_vars

\* the steps of call c after its cache lookup
CallStep(c) ==
    \/ AnonymousCognitoCredentialsProvider(c)
    \/ GetIdResponds(c)
    \/ GetOpenIdTokenResponds(c)
    \/ AssumeRoleResponds(c)
    \/ RemoteStepFails(c)

\* some pending handler runs or some invoked remote step answers, as long
\* as there is one (implied by: every pending handler runs and every
\* invoked remote step answers)
Fairness == WF_vars(\E c \in Calls : CallStep(c))

\* the stored items on which the fair behaviours start: nothing, text that
\* does not parse, an expired record and a record that is still valid
FairItems ==
    {ItemAbsent, ItemText}
        \cup {ItemObject([Credential("0", InvalidDate)
                            EXCEPT !.expiration = JString(toISOString(DateOf(e)))]) :
                 e \in {T0 - 1, T0 + 1}}

FairInit == Init /\ storage \in FairItems

FairSpec == FairInit /\ [][Next]_vars /\ Fairness

\* ------------------------------------------------- DomEventPlugin operations
HasRepeat(config) ==
    \E i, j \in 1..Len(config) : i # j /\ config[i] = config[j]

\* load(context)
load ==
    /\ recordEvent' = "record"
    /\ lastOp' = "load"
    /\ Forget
    /\ UNCHANGED <<enabled, configuration, eventListenerMap, attached,
                   nextListener, duplicated>>
    /\ UNCHANGED authVars

\* enable()
enable ==
    /\ lastOp' = "enable"
    /\ IF enabled
       THEN UNCHANGED <<enabled, eventListenerMap, attached, nextListener>>
       ELSE /\ nextListener + Len(configuration) <= MaxListeners
            /\ LET st == addListeners(
                             Handlers(eventListenerMap, attached, nextListener),
                             configuration)
               IN  /\ eventListenerMap' = st.map
                   /\ attached' = st.attached
                   /\ nextListener' = st.next
            /\ enabled' = TRUE
    /\ Forget
    /\ UNCHANGED <<configuration, recordEvent, duplicated>>
    /\ UNCHANGED authVars

\* disable()
disable ==
    /\ lastOp' = "disable"
    /\ snapshot' = [on |-> enabled, attached |-> attached]
    /\ IF ~enabled
       THEN UNCHANGED <<enabled, eventListenerMap, attached>>
       ELSE /\ LET st == removeListeners(
                             Handlers(eventListenerMap, attached, nextListener),
                             configuration)
               IN  /\ eventListenerMap' = st.map
                   /\ attached' = st.attached
            /\ enabled' = FALSE
    /\ lastCalls' = 0
    /\ lastTarget' = NoTarget
    /\ UNCHANGED <<configuration, recordEvent, nextListener, duplicated>>
    /\ UNCHANGED authVars

\* configure(config)
configure(config) ==
    /\ lastOp' = "configure"
    /\ IF enabled
       THEN /\ nextListener + Len(config) <= MaxListeners
            /\ LET st == addListeners(
                             removeListeners(
                                 Handlers(eventListenerMap, attached, nextListener),
                                 configuration),
                             config)
               IN  /\ eventListenerMap' = st.map
                   /\ attached' = st.attached
                   /\ nextListener' = st.next
       ELSE UNCHANGED <<eventListenerMap, attached, nextListener>>
    /\ configuration' = config
    /\ duplicated' = (duplicated \/ HasRepeat(config))
    /\ Forget
    /\ UNCHANGED <<enabled, recordEvent>>
    /\ UNCHANGED authVars

\* an event of the given type is dispatched on the given element: every
\* listener attached for it runs and calls this.recordEvent if it is set
dispatch(element, type) ==
    /\ lastOp' = "dispatch"
    /\ lastTarget' = [element |-> element, event |-> type]
    /\ lastCalls' = IF recordEvent # "undefined"
                    THEN Cardinality(Invoked(attached, element, type))
                    ELSE 0
    /\ snapshot' = NoSnapshot
    /\ UNCHANGED <<enabled, configuration, eventListenerMap, recordEvent,
                   attached, nextListener, duplicated>>
    /\ UNCHANGED authVars

DomInit == Init /\ available /\ storage = ItemAbsent

DomNext ==
    \/ load
    \/ enable
    \/ disable
    \/ \E config \in Configs : configure(config)
    \/ \E element \in Document, type \in EventTypes : dispatch(element, type)

SpecDom == DomInit /\ [][DomNext]_vars

\* ---------------------------------------------------------------- claims
\* call c runs its cache lookup in this step
Starts(c) == pc[c] = "idle" /\ pc'[c] # "idle"

Protocol == <<"getId", "getOpenIdToken", "assumeRoleWithWebIdentity">>

\* the timestamp a stored record's expiration is reconstructed to
Reconstructed(item) == NewDate(item.obj.expiration)

\* a record with all four fields whose expiration text is a timestamp
WellFormed(item) ==
    /\ item.kind = "object"
    /\ item.obj.expiration.t = "string"
    /\ ~DateParse(item.obj.expiration.s).nan

\* the item holds exactly the four fields of credentials
Holds(item, credentials) ==
    /\ item.kind = "object"
    /\ item.obj.accessKeyId = credentials.accessKeyId
    /\ item.obj.secretAccessKey = credentials.secretAccessKey
    /\ item.obj.sessionToken = credentials.sessionToken
    /\ item.obj.expiration.t = "string"
    /\ Reconstructed(item) = credentials.expiration

\* C1: a call that starts while the key holds a well-formed record whose
\* expiration is strictly after the clock settles at once with a cache hit
\* and invokes no remote step, then or later.
C1_NoRemoteCallOnValidCache ==
    [][\A c \in Calls :
         /\ (Starts(c) /\ available /\ WellFormed(storage)
                /\ DateParse(storage.obj.expiration.s).ms > now)
              => /\ pc'[c] = "resolved"
                 /\ lookup'[c] = "hit"
                 /\ requests'[c] = <<>>
                 /\ inflight'[c] = NoMessage
         /\ lookup[c] = "hit"
              => /\ requests'[c] = <<>>
                 /\ inflight'[c] = NoMessage
                 /\ pc'[c] = "resolved"]_vars

C1_Witness ==
    \E c \in Calls :
        /\ lookup[c] = "hit"
        /\ pc[c] = "resolved"
        /\ WellFormed(seen[c])
        /\ ~result[c].expiration.nan
        /\ result[c].expiration.ms > now
        /\ requests[c] = <<>>

\* C2: a call whose cache lookup missed invokes getId, getOpenIdToken and
\* assumeRoleWithWebIdentity in that order, each at most once, and when it
\* resolves it has invoked all three and its credentials are the response
\* of the third step.
C2_ThreeStepsInOrder ==
    \A c \in Calls :
        /\ Len(requests[c]) <= 3
        /\ requests[c] = SubSeq(Protocol, 1, Len(requests[c]))
        /\ (lookup[c] = "miss" /\ pc[c] = "resolved")
             => /\ requests[c] = Protocol
                /\ received[c].op = "assumeRoleWithWebIdentityResponse"
                /\ result[c] = received[c].Credentials

C2_Witness ==
    \E c \in Calls :
        /\ lookup[c] = "miss"
        /\ pc[c] = "resolved"
        /\ requests[c] = Protocol
        /\ result[c] = received[c].Credentials
        /\ result[c] # NoCredentials

\* C3: a stored record whose reconstructed expiration is at or before the
\* clock (equal included) makes the cache lookup miss, and nothing is
\* returned from the cache.
C3_NotStrictlyFutureIsMiss ==
    [][\A c \in Calls :
         (Starts(c) /\ storage.kind = "object"
             /\ ~Reconstructed(storage).nan
             /\ Reconstructed(storage).ms <= now)
           => /\ lookup'[c] = "miss"
              /\ result'[c] = NoCredentials]_vars

\* C4: a stored record whose expiration is missing or cannot be
\* reconstructed into a timestamp makes the cache lookup miss, so that the
\* call falls through to the remote exchange.
C4_UnreconstructibleIsMiss ==
    [][\A c \in Calls :
         (Starts(c) /\ storage.kind = "object"
             /\ (\/ storage.obj.expiration.t = "undefined"
                 \/ /\ storage.obj.expiration.t = "string"
                    /\ DateParse(storage.obj.expiration.s).nan))
           => /\ lookup'[c] = "miss"
              /\ pc'[c] = "miss"]_vars

\* C5: a call rejects only when one of its remote steps fails after a cache
\* miss; that step leaves the key as it was, the call has written nothing,
\* and once rejected the call stays rejected and invokes nothing more.
C5_FailureRejectsWithoutWrite ==
    [][\A c \in Calls :
         /\ (pc'[c] = "rejected" /\ pc[c] # "rejected")
              => /\ pc[c] \in {"getId", "getOpenIdToken", "assumeRole"}
                 /\ lookup[c] = "miss"
                 /\ storage' = storage
                 /\ wrote'[c] = "none"
                 /\ writer' # c
                 /\ result'[c] = NoCredentials
         /\ pc[c] = "rejected"
              => /\ pc'[c] = "rejected"
                 /\ requests'[c] = requests[c]
                 /\ wrote'[c] = "none"
         /\ (Running(c) /\ pc'[c] # "resolved") => storage' = storage
                 \/ \E d \in Calls \ {c} : writer' = d /\ pc[d] = "assumeRole"]_vars

C5_Witness ==
    \E c \in Calls :
        /\ pc[c] = "rejected"
        /\ requests[c] = Protocol
        /\ wrote[c] = "none"
        /\ writer = 0
        /\ storage = seen[c]

\* C6: when the three steps succeed and setItem throws, the call still
\* resolves with the credentials of the third step.
C6_WriteFailureSwallowed ==
    \A c \in Calls :
        wrote[c] = "failed"
          => /\ pc[c] = "resolved"
             /\ requests[c] = Protocol
             /\ result[c] = received[c].Credentials
             /\ result[c] # NoCredentials

C6_Witness ==
    \E c \in Calls :
        /\ wrote[c] = "failed"
        /\ pc[c] = "resolved"
        /\ writer = 0
        /\ storage = seen[c]
        /\ result[c] = received[c].Credentials

\* C7: when the key is absent, its text is not parseable or the storage
\* cannot be read, the cache lookup yields a miss; the call then rejects
\* only on a failed remote step and resolves only with the credentials of
\* the third step.
C7_UnreadableIsMiss ==
    [][\A c \in Calls :
         /\ (Starts(c) /\ (~available \/ storage.kind \in {"absent", "text"}))
              => /\ lookup'[c] = "miss"
                 /\ pc'[c] = "miss"
                 /\ result'[c] = NoCredentials
         /\ (lookup[c] = "miss" /\ seen[c].kind \in {"absent", "text"})
              => /\ (pc'[c] = "rejected" /\ pc[c] # "rejected")
                      => pc[c] \in {"getId", "getOpenIdToken", "assumeRole"}
                 /\ (pc'[c] = "resolved" /\ pc[c] # "resolved")
                      => /\ pc[c] = "assumeRole"
                         /\ result'[c] = received'[c].Credentials
                         /\ result'[c] # NoCredentials]_vars

C7_Witness ==
    \E c \in Calls :
        /\ seen[c].kind = "text"
        /\ lookup[c] = "miss"
        /\ pc[c] = "resolved"
        /\ result[c] = received[c].Credentials

\* C8: a stored record whose expiration is in the past makes the cache
\* lookup miss; a call that missed resolves only after the three remote
\* steps, and when its setItem succeeds the key holds the new credentials.
C8_ExpiredIsReplaced ==
    [][\A c \in Calls :
         /\ (Starts(c) /\ storage.kind = "object"
                /\ ~Reconstructed(storage).nan
                /\ Reconstructed(storage).ms < now)
              => /\ lookup'[c] = "miss"
                 /\ pc'[c] = "miss"
         /\ (lookup[c] = "miss" /\ pc'[c] = "resolved" /\ pc[c] # "resolved")
              => /\ requests[c] = Protocol
                 /\ wrote'[c] = "ok" => Holds(storage', result'[c])]_vars

C8_Witness ==
    \E c \in Calls :
        /\ seen[c].kind = "object"
        /\ ~Reconstructed(seen[c]).nan
        /\ Reconstructed(seen[c]).ms < T0
        /\ lookup[c] = "miss"
        /\ requests[c] = Protocol
        /\ pc[c] = "resolved"
        /\ wrote[c] = "ok"
        /\ writer = c
        /\ Holds(storage, result[c])
        /\ storage # seen[c]

\* C9: a cache lookup that reads the record a call stored, while the clock
\* is strictly before the stored credentials' expiration, returns
\* credentials equal to the stored ones in all four fields, the expiration
\* being the same timestamp; the record carries the expiration as text.
C9_StoreLoadRoundTrip ==
    [][\A c, d \in Calls :
         (Starts(d) /\ writer = c
             /\ ~result[c].expiration.nan
             /\ now < result[c].expiration.ms)
           => /\ storage.obj.expiration.t = "string"
              /\ lookup'[d] = "hit"
              /\ result'[d].accessKeyId = result[c].accessKeyId
              /\ result'[d].secretAccessKey = result[c].secretAccessKey
              /\ result'[d].sessionToken = result[c].sessionToken
              /\ result'[d].expiration = result[c].expiration]_vars

C9_Witness ==
    \E c, d \in Calls :
        /\ c # d
        /\ seenFrom[d] = c
        /\ lookup[d] = "hit"
        /\ result[d] = result[c]
        /\ ~result[d].expiration.nan

\* C10: once a call has resolved through the remote exchange and stored
\* its credentials, a call that starts strictly before their expiration
\* while the key still holds that record resolves with the same credentials
\* and invokes no remote step, then or later.
C10_NoReauthentication ==
    [][\A c, d \in Calls :
         /\ (Starts(d) /\ writer = c /\ wrote[c] = "ok"
                /\ pc[c] = "resolved" /\ lookup[c] = "miss"
                /\ now < result[c].expiration.ms)
              => /\ pc'[d] = "resolved"
                 /\ result'[d] = result[c]
                 /\ requests'[d] = <<>>
         /\ (seenFrom[d] = c /\ lookup[d] = "hit")
              => /\ pc'[d] = "resolved"
                 /\ requests'[d] = <<>>]_vars

C10_Witness ==
    \E c, d \in Calls :
        /\ seenFrom[d] = c
        /\ lookup[c] = "miss"
        /\ requests[c] = Protocol
        /\ wrote[c] = "ok"
        /\ pc[d] = "resolved"
        /\ lookup[d] = "hit"
        /\ requests[d] = <<>>
        /\ result[d] = result[c]
        /\ now < result[c].expiration.ms

\* C11: two calls that both missed the cache each run the three steps and
\* each resolves with the credentials of its own third step; whenever a
\* call has stored, the key holds the credentials of the call that stored
\* last, all four fields from that one call.
C11_LastWriteWins ==
    /\ \A c, d \in Calls :
         (c # d /\ lookup[c] = "miss" /\ lookup[d] = "miss"
               /\ pc[c] = "resolved" /\ pc[d] = "resolved")
           => /\ requests[c] = Protocol
              /\ requests[d] = Protocol
              /\ result[c] = received[c].Credentials
              /\ result[d] = received[d].Credentials
              /\ (wrote[c] = "ok" /\ wrote[d] = "ok") => writer # 0
    /\ writer # 0
         => /\ wrote[writer] = "ok"
            /\ pc[writer] = "resolved"
            /\ Holds(storage, result[writer])

C11_Witness ==
    \E c, d \in Calls :
        /\ c # d
        /\ seenFrom[c] = 0 /\ seenFrom[d] = 0
        /\ lookup[c] = "miss" /\ lookup[d] = "miss"
        /\ pc[c] = "resolved" /\ pc[d] = "resolved"
        /\ wrote[c] = "ok" /\ wrote[d] = "ok"
        /\ result[c].accessKeyId # result[d].accessKeyId
        /\ result[c].expiration # result[d].expiration
        /\ writer = c
        /\ Holds(storage, result[c])
        /\ ~Holds(storage, result[d])

\* C12: within one call a remote step is invoked only as the next step of
\* the protocol: getId after the cache miss, getOpenIdToken on the response
\* of getId, assumeRoleWithWebIdentity on the response of getOpenIdToken;
\* no step is invoked twice, and a call that rejects invokes nothing in
\* that step or afterwards.
C12_StrictProtocol ==
    [][\A c \in Calls :
         /\ requests'[c] # requests[c]
              => /\ Len(requests[c]) < 3
                 /\ requests'[c] = Append(requests[c], Protocol[Len(requests[c]) + 1])
                 /\ inflight'[c].op = Protocol[Len(requests[c]) + 1]
                 /\ Len(requests[c]) = 0 => pc[c] = "miss"
                 /\ Len(requests[c]) = 1
                      => pc[c] = "getId" /\ received'[c].op = "getIdResponse"
                 /\ Len(requests[c]) = 2
                      => /\ pc[c] = "getOpenIdToken"
                         /\ received'[c].op = "getOpenIdTokenResponse"
         /\ pc'[c] = "rejected"
              => /\ requests'[c] = requests[c]
                 /\ inflight'[c] = NoMessage
         /\ pc[c] \in {"getId", "getOpenIdToken", "assumeRole"}
              => inflight[c].op = pc[c] \/ pc[c] = "assumeRole"]_vars

C12_Witness ==
    \E c \in Calls :
        /\ pc[c] = "rejected"
        /\ requests[c] = <<"getId", "getOpenIdToken">>
        /\ inflight[c] = NoMessage

\* C13: the key changes only in the step in which a call that missed the
\* cache receives the credentials of its third step, and then holds exactly
\* those credentials; before any such step it holds its initial content;
\* calls that hit the cache or reject have written nothing; no stored field
\* is an identity id or an identity token.
C13_OnlyThirdStepCredentialsStored ==
    [][/\ storage' # storage
            => \E c \in Calls :
                 /\ pc[c] = "assumeRole"
                 /\ pc'[c] = "resolved"
                 /\ lookup[c] = "miss"
                 /\ requests[c] = Protocol
                 /\ wrote'[c] = "ok"
                 /\ writer' = c
                 /\ Holds(storage', received'[c].Credentials)
       /\ writer = 0 => storage \in InitialItems
       /\ writer # 0 => Holds(storage, received[writer].Credentials)
       /\ \A c \in Calls :
            (lookup'[c] = "hit" \/ pc'[c] = "rejected")
              => wrote'[c] = "none" /\ writer' # c
       /\ \A x \in IdentityIds \cup Tokens :
            /\ storage'.obj.accessKeyId # x
            /\ storage'.obj.secretAccessKey # x
            /\ storage'.obj.sessionToken # x]_vars

C13_Witness ==
    \E c, d \in Calls :
        /\ writer = c
        /\ lookup[c] = "miss"
        /\ Holds(storage, received[c].Credentials)
        /\ storage \notin InitialItems
        /\ lookup[d] = "hit"
        /\ wrote[d] = "none"

\* C14: in every interleaving, the request a call is waiting on was built
\* from that call's own data: getId carries the configured identity pool
\* id, getOpenIdToken the identity its getId returned,
\* assumeRoleWithWebIdentity the configured guest role, the session name
\* and the token its getOpenIdToken returned; a call that resolves after a
\* miss resolves with the credentials its own third step returned.
C14_NoCrossCallMixing ==
    \A c \in Calls :
        /\ pc[c] = "getId"
             => /\ inflight[c].op = "getId"
                /\ inflight[c].IdentityPoolId = identityPoolId
        /\ pc[c] = "getOpenIdToken"
             => /\ inflight[c].op = "getOpenIdToken"
                /\ received[c].op = "getIdResponse"
                /\ inflight[c].IdentityId = received[c].IdentityId
                /\ inflight[c].IdentityId \in IdentityIds
        /\ pc[c] = "assumeRole"
             => /\ inflight[c].op = "assumeRoleWithWebIdentity"
                /\ received[c].op = "getOpenIdTokenResponse"
                /\ inflight[c].Token = received[c].Token
                /\ inflight[c].Token \in Tokens
                /\ inflight[c].RoleArn = guestRoleArn
                /\ inflight[c].RoleSessionName = "cwr"
        /\ (pc[c] = "resolved" /\ lookup[c] = "miss")
             => /\ received[c].op = "assumeRoleWithWebIdentityResponse"
                /\ result[c] = received[c].Credentials

C14_Witness ==
    \E c, d \in Calls :
        /\ c # d
        /\ pc[c] = "getOpenIdToken"
        /\ pc[d] = "assumeRole"
        /\ inflight[c].IdentityId # received[d].IdentityId
        /\ inflight[c].IdentityId = received[c].IdentityId
        /\ inflight[d].Token = received[d].Token

\* C15: when handlers run and remote steps answer, every started call
\* eventually resolves or rejects (from any state with a call under way a
\* state is reached in which none is, and a started call never goes back
\* to idle); a settled call keeps its outcome and its
\* credentials; and a cache lookup in which reject() was called (storage or
\* parse error, expired record) stays a miss: the resolve(credentials) that
\* follows delivers nothing.
C15_SettlesExactlyOnce ==
    /\ (\E c \in Calls : Running(c)) ~> (\A c \in Calls : ~Running(c))
    /\ [][\A c \in Calls :
            /\ pc[c] # "idle" => pc'[c] # "idle"
            /\ Running(c) => ~Settled(c)
            /\ Settled(c)
                 => /\ pc'[c] = pc[c]
                    /\ result'[c] = result[c]
                    /\ lookup'[c] = lookup[c]
            /\ (Starts(c)
                  /\ (\/ ~available
                      \/ storage.kind = "text"
                      \/ /\ storage.kind = "object"
                         /\ ~Reconstructed(storage).nan
                         /\ Reconstructed(storage).ms < now))
                 => /\ lookup'[c] = "miss"
                    /\ pc'[c] = "miss"
                    /\ result'[c] = NoCredentials]_vars

C15_Witness ==
    \E c, d \in Calls :
        /\ pc[c] = "rejected"
        /\ pc[d] = "resolved"
        /\ lookup[d] = "miss"
        /\ seen[d].kind = "object"
        /\ ~Reconstructed(seen[d]).nan
        /\ Reconstructed(seen[d]).ms < T0

\* the element a TargetDomEvent object resolves to
ElementOf(o) ==
    IF TargetDomEvent(o).elementId # "" THEN TargetDomEvent(o).elementId
    ELSE TargetDomEvent(o).element

\* the listener the map records for object o, as attached to o's element
Recorded(o) ==
    [element |-> ElementOf(o), event |-> TargetDomEvent(o).event,
     listener |-> eventListenerMap[o]]

\* C16: as long as every list supplied to configure() had distinct
\* entries, an enabled plugin has exactly one listener attached per entry
\* of the current configuration, the one its map records, and a disabled
\* plugin has none attached.
C16_ListenersFollowConfiguration ==
    ~duplicated
      => /\ enabled
              => /\ Cardinality(attached) = Len(configuration)
                 /\ \A i \in 1..Len(configuration) :
                      /\ eventListenerMap[configuration[i]] # 0
                      /\ Recorded(configuration[i]) \in attached
         /\ ~enabled => attached = {}

C16_Witness ==
    /\ ~duplicated
    /\ enabled
    /\ lastOp = "enable"
    /\ Len(configuration) = 2
    /\ Cardinality(attached) = 2
    /\ nextListener = 4

\* C17: for every list, repeated entries included, every listener that is
\* attached is the one the map records for an entry of the current
\* configuration, and nothing is attached while the plugin is disabled.
C17_NoLeakedListener ==
    /\ \A l \in attached :
         \E i \in 1..Len(configuration) : l = Recorded(configuration[i])
    /\ ~enabled => attached = {}

\* C18: enable() on an enabled plugin and disable() on a disabled plugin
\* change nothing, and enable() right after a disable() that found the
\* plugin enabled leaves as many listeners on every element and type as
\* were attached before that disable().
C18_EnableDisableInverse ==
    [][/\ (lastOp' = "enable" /\ enabled)
            => UNCHANGED <<enabled, configuration, eventListenerMap, attached,
                           nextListener>>
       /\ (lastOp' = "disable" /\ ~enabled)
            => UNCHANGED <<enabled, configuration, eventListenerMap, attached,
                           nextListener>>
       /\ (lastOp = "disable" /\ snapshot.on /\ lastOp' = "enable")
            => \A element \in Document, type \in EventTypes :
                 Cardinality(Invoked(attached', element, type))
                   = Cardinality(Invoked(snapshot.attached, element, type))]_vars

\* C19: an event dispatched on an element makes exactly one recordEvent
\* call if the plugin is enabled, load() has run and the current
\* configuration has an entry for that element and type, and none
\* otherwise.
C19_RecordsOnlyWhileEnabledAndLoaded ==
    [][lastOp' = "dispatch"
         => lastCalls' =
              IF /\ enabled
                 /\ recordEvent = "record"
                 /\ \E i \in 1..Len(configuration) :
                      /\ ElementOf(configuration[i]) = lastTarget'.element
                      /\ TargetDomEvent(configuration[i]).event = lastTarget'.event
              THEN 1 ELSE 0]_vars

====
